---- MODULE Spec2Model ----
(***************************************************************************)
(* AI Planner: the prompt-to-structured-plan pipeline.                     *)
(*                                                                         *)
(*   brief -> prompt -> provider completion -> clean_json_response         *)
(*         -> json.loads -> validate_json_structure -> Plan construction  *)
(*         -> Plan.to_markdown                                             *)
(*                                                                         *)
(* Text is a sequence of characters; a character is a one-character        *)
(* string, except the backquote, written "BT", and the backspace, "BS".    *)
(***************************************************************************)
EXTENDS Integers, Sequences, FiniteSets, TLC

\* ------------------------------------------------------------------------
\* Text constants of the source
\* ------------------------------------------------------------------------
s_project_name ==
    <<"p","r","o","j","e","c","t","_","n","a","m","e">>
s_project_summary ==
    <<"p","r","o","j","e","c","t","_","s","u","m","m","a","r","y">>
s_total_weeks ==
    <<"t","o","t","a","l","_","w","e","e","k","s">>
s_milestones ==
    <<"m","i","l","e","s","t","o","n","e","s">>
s_risks ==
    <<"r","i","s","k","s">>
s_monitoring_checkpoints ==
    <<"m","o","n","i","t","o","r","i","n","g","_","c","h","e","c","k","p","o","i","n",
      "t","s">>
s_parallel_opportunities ==
    <<"p","a","r","a","l","l","e","l","_","o","p","p","o","r","t","u","n","i","t","i",
      "e","s">>
s_title ==
    <<"t","i","t","l","e">>
s_description ==
    <<"d","e","s","c","r","i","p","t","i","o","n">>
s_impact ==
    <<"i","m","p","a","c","t">>
s_probability ==
    <<"p","r","o","b","a","b","i","l","i","t","y">>
s_mitigation ==
    <<"m","i","t","i","g","a","t","i","o","n">>
s_name ==
    <<"n","a","m","e">>
s_estimated_hours ==
    <<"e","s","t","i","m","a","t","e","d","_","h","o","u","r","s">>
s_dependencies ==
    <<"d","e","p","e","n","d","e","n","c","i","e","s">>
s_can_parallel ==
    <<"c","a","n","_","p","a","r","a","l","l","e","l">>
s_week_number ==
    <<"w","e","e","k","_","n","u","m","b","e","r">>
s_deliverables ==
    <<"d","e","l","i","v","e","r","a","b","l","e","s">>
s_tasks ==
    <<"t","a","s","k","s">>
s_success_criteria ==
    <<"s","u","c","c","e","s","s","_","c","r","i","t","e","r","i","a">>
s_Untitled_Project ==
    <<"U","n","t","i","t","l","e","d"," ","P","r","o","j","e","c","t">>
s_No_summary_provided ==
    <<"N","o"," ","s","u","m","m","a","r","y"," ","p","r","o","v","i","d","e","d">>
s_Generic_Risk ==
    <<"G","e","n","e","r","i","c"," ","R","i","s","k">>
s_Standard_project_risk ==
    <<"S","t","a","n","d","a","r","d"," ","p","r","o","j","e","c","t"," ","r","i","s",
      "k">>
s_Medium ==
    <<"M","e","d","i","u","m">>
s_Monitor_and_adjust ==
    <<"M","o","n","i","t","o","r"," ","a","n","d"," ","a","d","j","u","s","t"," ","a",
      "s"," ","n","e","e","d","e","d">>
s_Low ==
    <<"L","o","w">>
s_High ==
    <<"H","i","g","h">>
s_fence_json ==
    <<"BT","BT","BT","j","s","o","n">>
s_fence ==
    <<"BT","BT","BT">>
s_null ==
    <<"n","u","l","l">>
s_true ==
    <<"t","r","u","e">>
s_false ==
    <<"f","a","l","s","e">>

Digits == <<"0","1","2","3","4","5","6","7","8","9">>

\* Python's str(n) for an integer
RECURSIVE NatStr(_)
NatStr(n) == IF n < 10 THEN <<Digits[n + 1]>> ELSE NatStr(n \div 10) \o <<Digits[(n % 10) + 1]>>

IntStr(n) == IF n < 0 THEN <<"-">> \o NatStr(0 - n) ELSE NatStr(n)

\* The one element of a one-element set.  A value that is used more than once
\* is bound as the element of such a set, so that it is computed once.
Only(S) == CHOOSE y \in S : TRUE

\* s[i:i+1] of Python, with 0-based i: "" past the end
At(s, i) == IF i >= 0 /\ i < Len(s) THEN s[i + 1] ELSE ""

\* s[i:j] of Python, 0 <= i
Slice(s, i, j) == SubSeq(s, i + 1, IF j > Len(s) THEN Len(s) ELSE j)

\* s.startswith(p, i)
StartsWithAt(s, p, i) == i + Len(p) <= Len(s) /\ SubSeq(s, i + 1, i + Len(p)) = p

\* ------------------------------------------------------------------------
\* Loosely typed parsed-JSON values.  Every value is a record of one shape;
\* t is the Python type the parser produced: None, str, int, bool, list, dict.
\* A dict is its sequence of items [k, v] in insertion order, keys distinct.
\* ------------------------------------------------------------------------
JNull == [t |-> "null", s |-> <<>>, n |-> 0, l |-> <<>>, o |-> <<>>]

JStr(x) == [t |-> "str", s |-> x, n |-> 0, l |-> <<>>, o |-> <<>>]

JNum(x) == [t |-> "num", s |-> <<>>, n |-> x, l |-> <<>>, o |-> <<>>]

JBool(b) == [t |-> "bool", s |-> <<>>, n |-> IF b THEN 1 ELSE 0, l |-> <<>>, o |-> <<>>]

JList(x) == [t |-> "list", s |-> <<>>, n |-> 0, l |-> x, o |-> <<>>]

JObj(x) == [t |-> "obj", s |-> <<>>, n |-> 0, l |-> <<>>, o |-> x]

Item(key, val) == [k |-> key, v |-> val]

\* key in d
HasKey(o, key) == \E i \in 1..Len(o) : o[i].k = key

KeyIndex(o, key) == CHOOSE i \in 1..Len(o) : o[i].k = key

\* d[key], for a key of d
Get(o, key) == o[KeyIndex(o, key)].v

\* d[key] = val: a present key keeps its place, a new key goes last
Put(o, key, val) ==
    IF HasKey(o, key)
    THEN LET i == KeyIndex(o, key)
         IN  SubSeq(o, 1, i - 1) \o <<Item(key, val)>> \o SubSeq(o, i + 1, Len(o))
    ELSE Append(o, Item(key, val))

\* ------------------------------------------------------------------------
\* json.loads on a str: the decoder of the standard library, for documents
\* of strings, integers, true, false, null, arrays and objects (no fraction
\* or exponent, no \u escape, no NaN or Infinity).
\* A result is [ok, val, end, msg]: on failure msg is the JSONDecodeError
\* message and end the position it reports.
\* ------------------------------------------------------------------------
JsonWs == {" ", "\t", "\n", "\r"}

Parsed(val, end) == [ok |-> TRUE, val |-> val, end |-> end, msg |-> ""]

DecodeError(msg, pos) == [ok |-> FALSE, val |-> JNull, end |-> pos, msg |-> msg]

\* WHITESPACE.match(s, i).end()
SkipWs(s, i) ==
    LET stops == {j \in i..(Len(s) - 1) : s[j + 1] \notin JsonWs}
    IN  IF i >= Len(s) THEN i
        ELSE IF stops = {} THEN Len(s)
        ELSE CHOOSE a \in stops : \A b \in stops : a <= b

IsDigit(c) == \E d \in 1..10 : Digits[d] = c

DigitVal(c) == (CHOOSE d \in 1..10 : Digits[d] = c) - 1

\* the character an escape letter stands for
Unescaped(e) ==
    IF e = "n" THEN "\n" ELSE IF e = "t" THEN "\t" ELSE IF e = "r" THEN "\r"
    ELSE IF e = "f" THEN "\f" ELSE IF e = "b" THEN "BS" ELSE e

\* py_scanstring after the opening quote at begin - 1: the text up to the next
\* quote, backslash or control character is taken whole
RECURSIVE ScanString(_, _, _, _)
ScanString(s, begin, from, sofar) ==
    Only({
        LET stops == {j \in i..(Len(s) - 1) : s[j + 1] \in {"\"", "\\", "\n", "\t", "\r", "\f", "BS"}}
        IN  IF stops = {} THEN DecodeError("Unterminated string starting at", begin - 1)
            ELSE Only({
                LET c     == s[j + 1]
                    chunk == acc \o Slice(s, i, j)
                IN  IF c = "\"" THEN Parsed(JStr(chunk), j + 1)
                    ELSE IF c # "\\" THEN DecodeError("Invalid control character at", j)
                    ELSE IF At(s, j + 1) = ""
                         THEN DecodeError("Unterminated string starting at", begin - 1)
                    ELSE IF At(s, j + 1) \in {"\"", "\\", "/", "n", "t", "r", "f", "b"}
                         THEN ScanString(s, begin, j + 2, Append(chunk, Unescaped(At(s, j + 1))))
                    ELSE DecodeError("Invalid \\escape", j)
                : j \in {CHOOSE a \in stops : \A b \in stops : a <= b} })
        : i \in {from}, acc \in {sofar} })

\* the integer part of NUMBER_RE matches at i: an optional minus sign, then a digit
MatchesNumber(s, i) == IsDigit(At(s, IF At(s, i) = "-" THEN i + 1 ELSE i))

\* the value of the digits s[i:j]
RECURSIVE DigitsValue(_, _, _)
DigitsValue(s, i, j) ==
    IF j <= i THEN 0 ELSE DigitsValue(s, i, j - 1) * 10 + DigitVal(s[j])

\* the integer part of NUMBER_RE: "0", or a digit 1-9 and the digits after it
ScanNumber(s, i) ==
    LET neg   == At(s, i) = "-"
        j     == IF neg THEN i + 1 ELSE i
        stops == {k \in j..(Len(s) - 1) : ~IsDigit(s[k + 1])}
        end   == IF At(s, j) = "0" THEN j + 1
                 ELSE IF stops = {} THEN Len(s)
                 ELSE CHOOSE a \in stops : \A b \in stops : a <= b
        n     == DigitsValue(s, j, end)
    IN  Parsed(JNum(IF neg THEN 0 - n ELSE n), end)

RECURSIVE ScanOnce(_, _), ObjectPairs(_, _, _), ArrayItems(_, _, _)

\* JSONObject: end0 is the position after "{"
ParseObject(s, end0) ==
    LET end1 == IF At(s, end0) \in JsonWs THEN SkipWs(s, end0) ELSE end0
        c1   == At(s, end1)
    IN  IF c1 = "}" THEN Parsed(JObj(<<>>), end1 + 1)
        ELSE IF c1 # "\""
             THEN DecodeError("Expecting property name enclosed in double quotes", end1)
        ELSE ObjectPairs(s, end1 + 1, <<>>)

\* the while loop of JSONObject: from is the position after a key's opening quote
ObjectPairs(s, from, sofar) ==
    Only({
        IF ~key.ok THEN key
        ELSE LET end1 == SkipWs(s, key.end)
             IN  IF At(s, end1) # ":" THEN DecodeError("Expecting ':' delimiter", end1)
                 ELSE Only({
                     IF ~value.ok THEN value
                     ELSE Only({
                         IF At(s, end2) = "}" THEN Parsed(JObj(pairs2), end2 + 1)
                         ELSE IF At(s, end2) # ","
                              THEN DecodeError("Expecting ',' delimiter", end2)
                         ELSE Only({
                             IF At(s, end3) # "\""
                             THEN DecodeError(
                                 "Expecting property name enclosed in double quotes", end3)
                             ELSE ObjectPairs(s, end3 + 1, pairs2)
                             : end3 \in {SkipWs(s, end2 + 1)} })
                         : end2 \in {SkipWs(s, value.end)},
                           pairs2 \in {Put(pairs, key.val.s, value.val)} })
                     : value \in {ScanOnce(s, SkipWs(s, end1 + 1))} })
        : key \in {ScanString(s, from, from, <<>>)}, pairs \in {sofar} })

\* JSONArray: end0 is the position after "["
ParseArray(s, end0) ==
    Only({ IF At(s, end1) = "]" THEN Parsed(JList(<<>>), end1 + 1)
           ELSE ArrayItems(s, end1, <<>>)
           : end1 \in {SkipWs(s, end0)} })

\* the while loop of JSONArray
ArrayItems(s, from, sofar) ==
    Only({
        IF ~value.ok THEN value
        ELSE Only({
            IF At(s, end1) = "]" THEN Parsed(JList(values2), end1 + 1)
            ELSE IF At(s, end1) # "," THEN DecodeError("Expecting ',' delimiter", end1)
            ELSE Only({ ArrayItems(s, end2, values2) : end2 \in {SkipWs(s, end1 + 1)} })
            : end1 \in {SkipWs(s, value.end)}, values2 \in {Append(sofar, value.val)} })
        : value \in {ScanOnce(s, from)} })

\* scan_once; StopIteration(idx) becomes "Expecting value" at idx in every caller
ScanOnce(s, idx) ==
    LET c == At(s, idx)
    IN  IF c = "\"" THEN ScanString(s, idx + 1, idx + 1, <<>>)
        ELSE IF c = "{" THEN ParseObject(s, idx + 1)
        ELSE IF c = "[" THEN ParseArray(s, idx + 1)
        ELSE IF c = "n" /\ StartsWithAt(s, s_null, idx) THEN Parsed(JNull, idx + 4)
        ELSE IF c = "t" /\ StartsWithAt(s, s_true, idx) THEN Parsed(JBool(TRUE), idx + 4)
        ELSE IF c = "f" /\ StartsWithAt(s, s_false, idx) THEN Parsed(JBool(FALSE), idx + 5)
        ELSE IF MatchesNumber(s, idx) THEN ScanNumber(s, idx)
        ELSE DecodeError("Expecting value", idx)

\* json.loads(s): JSONDecoder.decode
json_loads(s) ==
    Only({ IF ~r.ok THEN r
           ELSE LET end == SkipWs(s, r.end)
                IN  IF end # Len(s) THEN DecodeError("Extra data", end) ELSE Parsed(r.val, end)
           : r \in {ScanOnce(s, SkipWs(s, 0))} })

\* ------------------------------------------------------------------------
\* backend/utils.py
\* ------------------------------------------------------------------------

\* what \s of a str pattern matches, and what str.strip() removes
ReWs == {" ", "\t", "\n", "\r", "\f"}

RECURSIVE SkipReWs(_, _)
SkipReWs(s, i) == IF At(s, i) \in ReWs THEN SkipReWs(s, i + 1) ELSE i

\* the first re.sub: every occurrence of the json fence opener together with
\* the whitespace after it is removed, left to right
RECURSIVE SubJsonFence(_, _, _)
SubJsonFence(s, i, acc) ==
    LET hits == {h \in i..(Len(s) - 1) : StartsWithAt(s, s_fence_json, h)}
    IN  IF hits = {} THEN acc \o Slice(s, i, Len(s))
        ELSE LET h == CHOOSE a \in hits : \A b \in hits : a <= b
             IN  SubJsonFence(s, SkipReWs(s, h + Len(s_fence_json)), acc \o Slice(s, i, h))

\* the second re.sub: the leftmost fence that only whitespace separates
\* from the end of the text is removed with that whitespace
SubTrailingFence(s) ==
    LET hits == {i \in 0..Len(s) : StartsWithAt(s, s_fence, i)
                                   /\ SkipReWs(s, i + Len(s_fence)) = Len(s)}
    IN  IF hits = {} THEN s
        ELSE LET i == CHOOSE h \in hits : \A g \in hits : h <= g IN Slice(s, 0, i)

\* re.search with DOTALL: the first opening brace through the last closing brace
BraceSpan(s) ==
    LET opens  == {i \in 1..Len(s) : s[i] = "{"}
        closes == {i \in 1..Len(s) : s[i] = "}"}
    IN  IF opens = {} \/ closes = {} THEN <<>>
        ELSE LET i == CHOOSE a \in opens : \A b \in opens : a <= b
                 j == CHOOSE a \in closes : \A b \in closes : a >= b
             IN  IF i < j THEN <<SubSeq(s, i, j)>> ELSE <<>>

\* str.strip()
RECURSIVE LStrip(_)
LStrip(s) == IF s # <<>> /\ Head(s) \in ReWs THEN LStrip(Tail(s)) ELSE s

RECURSIVE RStrip(_)
RStrip(s) == IF s # <<>> /\ s[Len(s)] \in ReWs THEN RStrip(SubSeq(s, 1, Len(s) - 1)) ELSE s

\* a strip of the left end only
StripLeftOnly(s) == LStrip(s)

Strip(s) == RStrip(LStrip(s))

clean_json_response(response) ==
    LET r1         == SubJsonFence(response, 0, <<>>)
        r2         == SubTrailingFence(r1)
        json_match == BraceSpan(r2)
    IN  IF json_match # <<>> THEN json_match[1] ELSE Strip(r2)

\* the outcome of a call on loosely typed data: a value, or a raised exception
Returns(val) == [ok |-> TRUE, val |-> val, etype |-> ""]

Raises(etype) == [ok |-> FALSE, val |-> JNull, etype |-> etype]

required_fields ==
    << Item(s_project_name, JStr(s_Untitled_Project)),
       Item(s_project_summary, JStr(s_No_summary_provided)),
       Item(s_total_weeks, JNum(4)),
       Item(s_milestones, JList(<<>>)),
       Item(s_risks, JList(<<>>)),
       Item(s_monitoring_checkpoints, JList(<<>>)),
       Item(s_parallel_opportunities, JList(<<>>)) >>

\* for field, default_value in required_fields.items():
\*     if field not in data: data[field] = default_value
RECURSIVE EnsureFields(_, _)
EnsureFields(o, i) ==
    IF i > Len(required_fields) THEN o
    ELSE LET f == required_fields[i]
         IN  EnsureFields(IF HasKey(o, f.k) THEN o ELSE Put(o, f.k, f.v), i + 1)

PlaceholderRisk ==
    JObj(<< Item(s_title, JStr(s_Generic_Risk)),
            Item(s_description, JStr(s_Standard_project_risk)),
            Item(s_impact, JStr(s_Medium)),
            Item(s_probability, JStr(s_Medium)),
            Item(s_mitigation, JStr(s_Monitor_and_adjust)) >>)

\* the loop putting its placeholders in front
RECURSIVE PadRisksInFront(_)
PadRisksInFront(l) == IF Len(l) < 3 THEN PadRisksInFront(<<PlaceholderRisk>> \o l) ELSE l

\* while len(data['risks']) < 3: data['risks'].append({...})
RECURSIVE PadRisks(_)
PadRisks(l) == IF Len(l) < 3 THEN PadRisks(Append(l, PlaceholderRisk)) ELSE l

\* the risks rule without its elif branch: a long list is kept whole
NormalizeRisksNoTruncate(r) ==
    IF r.t \notin {"list", "str", "obj"} THEN Raises("TypeError")
    ELSE LET len == IF r.t = "list" THEN Len(r.l) ELSE IF r.t = "str" THEN Len(r.s) ELSE Len(r.o)
         IN  IF len < 3
             THEN IF r.t = "list" THEN Returns(JList(PadRisks(r.l))) ELSE Raises("AttributeError")
             ELSE Returns(r)

\* the risks rule on data['risks'], whatever its type: len() is defined on
\* list, str and dict; append on list only; [:3] on list and str
NormalizeRisks(r) ==
    IF r.t \notin {"list", "str", "obj"} THEN Raises("TypeError")
    ELSE LET len == IF r.t = "list" THEN Len(r.l) ELSE IF r.t = "str" THEN Len(r.s) ELSE Len(r.o)
         IN  IF len < 3
             THEN IF r.t = "list" THEN Returns(JList(PadRisks(r.l))) ELSE Raises("AttributeError")
             ELSE IF len > 3
             THEN IF r.t = "list" THEN Returns(JList(SubSeq(r.l, 1, 3)))
                  ELSE IF r.t = "str" THEN Returns(JStr(SubSeq(r.s, 1, 3)))
                  ELSE Raises("TypeError")
             ELSE Returns(r)

\* on anything but a dict, "field not in data" or data[field] raises TypeError
validate_json_structure(data) ==
    IF data.t # "obj" THEN Raises("TypeError")
    ELSE LET o == EnsureFields(data.o, 1)
             r == NormalizeRisks(Get(o, s_risks))
         IN  IF r.ok THEN Returns(JObj(Put(o, s_risks, r.val))) ELSE r

\* ------------------------------------------------------------------------
\* backend/models.py: the schema, as the validation Plan of plan_data runs.
\* Extra keys are ignored; a required field must be present with its type.
\* ------------------------------------------------------------------------
IsStr(o, key) == HasKey(o, key) /\ Get(o, key).t = "str"

IsInt(o, key) == HasKey(o, key) /\ Get(o, key).t \in {"num", "bool"}

IsStrList(o, key) ==
    /\ HasKey(o, key)
    /\ Get(o, key).t = "list"
    /\ \A i \in 1..Len(Get(o, key).l) : Get(o, key).l[i].t = "str"

StrsOf(v) == [i \in 1..Len(v.l) |-> v.l[i].s]

IsRisk(v) ==
    /\ v.t = "obj"
    /\ IsStr(v.o, s_title)
    /\ IsStr(v.o, s_description)
    /\ IsStr(v.o, s_impact)
    /\ IsStr(v.o, s_probability)
    /\ IsStr(v.o, s_mitigation)

Risk(v) ==
    [ title       |-> Get(v.o, s_title).s,
      description |-> Get(v.o, s_description).s,
      impact      |-> Get(v.o, s_impact).s,
      probability |-> Get(v.o, s_probability).s,
      mitigation  |-> Get(v.o, s_mitigation).s ]

IsTask(v) ==
    /\ v.t = "obj"
    /\ IsStr(v.o, s_name)
    /\ IsStr(v.o, s_description)
    /\ IsInt(v.o, s_estimated_hours)
    /\ (HasKey(v.o, s_dependencies) => IsStrList(v.o, s_dependencies))
    /\ (HasKey(v.o, s_can_parallel) => Get(v.o, s_can_parallel).t = "bool")

Task(v) ==
    [ name            |-> Get(v.o, s_name).s,
      description     |-> Get(v.o, s_description).s,
      estimated_hours |-> Get(v.o, s_estimated_hours).n,
      dependencies    |-> IF HasKey(v.o, s_dependencies)
                          THEN StrsOf(Get(v.o, s_dependencies)) ELSE <<>>,
      can_parallel    |-> IF HasKey(v.o, s_can_parallel)
                          THEN Get(v.o, s_can_parallel).n = 1 ELSE FALSE ]

IsMilestone(v) ==
    /\ v.t = "obj"
    /\ IsStr(v.o, s_name)
    /\ IsStr(v.o, s_description)
    /\ IsInt(v.o, s_week_number)
    /\ IsStrList(v.o, s_deliverables)
    /\ HasKey(v.o, s_tasks)
    /\ Get(v.o, s_tasks).t = "list"
    /\ \A i \in 1..Len(Get(v.o, s_tasks).l) : IsTask(Get(v.o, s_tasks).l[i])
    /\ IsStrList(v.o, s_success_criteria)

Milestone(v) ==
    [ name             |-> Get(v.o, s_name).s,
      description      |-> Get(v.o, s_description).s,
      week_number      |-> Get(v.o, s_week_number).n,
      deliverables     |-> StrsOf(Get(v.o, s_deliverables)),
      tasks            |-> [i \in 1..Len(Get(v.o, s_tasks).l) |-> Task(Get(v.o, s_tasks).l[i])],
      success_criteria |-> StrsOf(Get(v.o, s_success_criteria)) ]

IsPlan(v) ==
    /\ v.t = "obj"
    /\ IsStr(v.o, s_project_name)
    /\ IsStr(v.o, s_project_summary)
    /\ IsInt(v.o, s_total_weeks)
    /\ HasKey(v.o, s_milestones)
    /\ Get(v.o, s_milestones).t = "list"
    /\ \A i \in 1..Len(Get(v.o, s_milestones).l) : IsMilestone(Get(v.o, s_milestones).l[i])
    /\ HasKey(v.o, s_risks)
    /\ Get(v.o, s_risks).t = "list"
    /\ \A i \in 1..Len(Get(v.o, s_risks).l) : IsRisk(Get(v.o, s_risks).l[i])
    /\ IsStrList(v.o, s_monitoring_checkpoints)
    /\ IsStrList(v.o, s_parallel_opportunities)

\* Plan of plan_data: <<the Plan>>, or <<>> when pydantic raises ValidationError
Plan(v) ==
    IF ~IsPlan(v) THEN <<>>
    ELSE << [ project_name           |-> Get(v.o, s_project_name).s,
              project_summary        |-> Get(v.o, s_project_summary).s,
              total_weeks            |-> Get(v.o, s_total_weeks).n,
              milestones             |-> [i \in 1..Len(Get(v.o, s_milestones).l) |->
                                             Milestone(Get(v.o, s_milestones).l[i])],
              risks                  |-> [i \in 1..Len(Get(v.o, s_risks).l) |->
                                             Risk(Get(v.o, s_risks).l[i])],
              monitoring_checkpoints |-> StrsOf(Get(v.o, s_monitoring_checkpoints)),
              parallel_opportunities |-> StrsOf(Get(v.o, s_parallel_opportunities)) ] >>

\* ------------------------------------------------------------------------
\* backend/models.py: Plan.to_markdown, character by character
\* ------------------------------------------------------------------------
md_h1 ==
    <<"#"," ">>
md_summary ==
    <<"*","*","P","r","o","j","e","c","t"," ","S","u","m","m","a","r","y",":","*","*",
      " ">>
md_duration ==
    <<"*","*","T","o","t","a","l"," ","D","u","r","a","t","i","o","n",":","*","*"," ">>
md_weeks ==
    <<" ","w","e","e","k","s","\n","\n">>
md_milestones ==
    <<"#","#"," ","M","i","l","e","s","t","o","n","e","s","\n","\n">>
md_h3 ==
    <<"#","#","#"," ">>
md_week_open ==
    <<" ","(","W","e","e","k"," ">>
md_week_close ==
    <<")","\n">>
md_deliverables ==
    <<"*","*","D","e","l","i","v","e","r","a","b","l","e","s",":","*","*","\n">>
md_bullet ==
    <<"-"," ">>
md_tasks ==
    <<"\n","*","*","T","a","s","k","s",":","*","*","\n">>
md_parallel ==
    <<" ","(","C","a","n"," ","b","e"," ","d","o","n","e"," ","i","n"," ","p","a","r",
      "a","l","l","e","l",")">>
md_task_open ==
    <<"-"," ","*","*">>
md_task_hours ==
    <<"*","*"," ","(">>
md_task_close ==
    <<"h",")">>
md_indent ==
    <<" "," ">>
md_dependencies ==
    <<" "," ","D","e","p","e","n","d","e","n","c","i","e","s",":"," ">>
md_comma ==
    <<","," ">>
md_success ==
    <<"\n","*","*","S","u","c","c","e","s","s"," ","C","r","i","t","e","r","i","a",":",
      "*","*","\n">>
md_risks ==
    <<"#","#"," ","T","o","p"," ","3"," ","R","i","s","k","s","\n","\n">>
md_dot ==
    <<"."," ">>
md_description ==
    <<"*","*","D","e","s","c","r","i","p","t","i","o","n",":","*","*"," ">>
md_impact ==
    <<"*","*","I","m","p","a","c","t",":","*","*"," ">>
md_probability ==
    <<" ","|"," ","*","*","P","r","o","b","a","b","i","l","i","t","y",":","*","*"," ">>
md_mitigation ==
    <<"*","*","M","i","t","i","g","a","t","i","o","n",":","*","*"," ">>
md_monitoring ==
    <<"#","#"," ","M","o","n","i","t","o","r","i","n","g"," ","C","h","e","c","k","p",
      "o","i","n","t","s","\n","\n">>
md_opportunities ==
    <<"\n","#","#"," ","P","a","r","a","l","l","e","l"," ","W","o","r","k"," ","O","p",
      "p","o","r","t","u","n","i","t","i","e","s","\n","\n">>

NL == <<"\n">>

\* the concatenation of the texts ss[i], ss[i+1], ...
RECURSIVE Cat(_, _)
Cat(ss, i) == IF i > Len(ss) THEN <<>> ELSE ss[i] \o Cat(ss, i + 1)

\* for x in items: md += f"- {x}\n"
Bullets(items) == Cat([i \in 1..Len(items) |-> md_bullet \o items[i] \o NL], 1)

\* ', '.join(items)
RECURSIVE JoinComma(_, _)
JoinComma(items, i) ==
    IF i > Len(items) THEN <<>>
    ELSE IF i = Len(items) THEN items[i]
    ELSE items[i] \o md_comma \o JoinComma(items, i + 1)

\* the heading without the week number
MilestoneHeadingNoWeek(milestone) == md_h3 \o milestone.name \o NL

\* f"### {milestone.name} (Week {milestone.week_number})\n"
MilestoneHeading(milestone) ==
    md_h3 \o milestone.name \o md_week_open \o IntStr(milestone.week_number) \o md_week_close

\* the three lines of one task; the third only with dependencies
TaskLines(task) ==
    md_task_open \o task.name \o md_task_hours \o IntStr(task.estimated_hours) \o md_task_close
        \o (IF task.can_parallel THEN md_parallel ELSE <<>>) \o NL
    \o md_indent \o task.description \o NL
    \o (IF task.dependencies # <<>>
        THEN md_dependencies \o JoinComma(task.dependencies, 1) \o NL
        ELSE <<>>)

\* the body of the loop over self.milestones
MilestoneSection(milestone) ==
    MilestoneHeading(milestone)
    \o milestone.description \o NL \o NL
    \o md_deliverables \o Bullets(milestone.deliverables)
    \o md_tasks
    \o Cat([i \in 1..Len(milestone.tasks) |-> TaskLines(milestone.tasks[i])], 1)
    \o md_success \o Bullets(milestone.success_criteria)
    \o NL

\* the body of the loop over enumerate(self.risks, 1)
RiskSection(i, risk) ==
    md_h3 \o NatStr(i) \o md_dot \o risk.title \o NL
    \o md_description \o risk.description \o NL
    \o md_impact \o risk.impact \o md_probability \o risk.probability \o NL
    \o md_mitigation \o risk.mitigation \o NL \o NL

to_markdown(self) ==
    md_h1 \o self.project_name \o NL \o NL
    \o md_summary \o self.project_summary \o NL \o NL
    \o md_duration \o IntStr(self.total_weeks) \o md_weeks
    \o md_milestones
    \o Cat([i \in 1..Len(self.milestones) |-> MilestoneSection(self.milestones[i])], 1)
    \o md_risks
    \o Cat([i \in 1..Len(self.risks) |-> RiskSection(i, self.risks[i])], 1)
    \o md_monitoring \o Bullets(self.monitoring_checkpoints)
    \o md_opportunities \o Bullets(self.parallel_opportunities)

\* ------------------------------------------------------------------------
\* The provider's side: a JSON document for a value, as a model writes it
\* (compact separators; quote, backslash and line break escaped).
\* ------------------------------------------------------------------------
RECURSIVE Escaped(_, _)
Escaped(s, i) ==
    IF i > Len(s) THEN <<>>
    ELSE (IF s[i] \in {"\"", "\\"} THEN <<"\\", s[i]>>
          ELSE IF s[i] = "\n" THEN <<"\\", "n">>
          ELSE <<s[i]>>) \o Escaped(s, i + 1)

Quoted(s) == <<"\"">> \o Escaped(s, 1) \o <<"\"">>

RECURSIVE Dumps(_), DumpsList(_, _), DumpsItems(_, _)
Dumps(v) ==
    IF v.t = "null" THEN s_null
    ELSE IF v.t = "bool" THEN (IF v.n = 1 THEN s_true ELSE s_false)
    ELSE IF v.t = "num" THEN IntStr(v.n)
    ELSE IF v.t = "str" THEN Quoted(v.s)
    ELSE IF v.t = "list" THEN <<"[">> \o DumpsList(v.l, 1) \o <<"]">>
    ELSE <<"{">> \o DumpsItems(v.o, 1) \o <<"}">>

DumpsList(l, i) ==
    IF i > Len(l) THEN <<>>
    ELSE (IF i > 1 THEN <<",">> ELSE <<>>) \o Dumps(l[i]) \o DumpsList(l, i + 1)

DumpsItems(o, i) ==
    IF i > Len(o) THEN <<>>
    ELSE (IF i > 1 THEN <<",">> ELSE <<>>) \o Quoted(o[i].k) \o <<":">> \o Dumps(o[i].v)
         \o DumpsItems(o, i + 1)

\* ------------------------------------------------------------------------
\* backend/planner.py
\* ------------------------------------------------------------------------

\* the exception classes that can arise, each with its base class
ExcBase ==
    [ JSONDecodeError     |-> "ValueError",
      ValidationError     |-> "ValueError",
      ValueError          |-> "Exception",
      TypeError           |-> "Exception",
      AttributeError      |-> "Exception",
      APIConnectionError  |-> "Exception",
      AuthenticationError |-> "Exception",
      RateLimitError      |-> "Exception",
      Exception           |-> "BaseException",
      BaseException       |-> "" ]

\* issubclass(e, cls)
RECURSIVE IsSubclass(_, _)
IsSubclass(e, cls) == e = cls \/ (e \in DOMAIN ExcBase /\ IsSubclass(ExcBase[e], cls))

\* what client.chat.completions.create can raise
ProviderErrors == {"APIConnectionError", "AuthenticationError", "RateLimitError"}

\* An error string, kept by its parts.  fmt is the literal text around them.
\* f"Invalid JSON response from AI: {e}", e a JSONDecodeError with msg and pos
InvalidJsonMessage(msg, pos) ==
    [fmt |-> "Invalid JSON response from AI: {e}", etype |-> "JSONDecodeError",
     msg |-> msg, pos |-> pos]

\* the formatted message without the exception's class name
format_error_message_untyped(etype, msg, pos) ==
    [fmt |-> "Error ({error_type}): {str(error)}", etype |-> "", msg |-> msg, pos |-> pos]

\* f"Error ({error_type}): {str(error)}"
format_error_message(etype, msg, pos) ==
    [fmt |-> "Error ({error_type}): {str(error)}", etype |-> etype, msg |-> msg, pos |-> pos]

\* The try block of generate_plan from the provider's outcome on.  An outcome is
\* [kind, etype, text]: "raise" (the call raises etype), "none" (the first
\* choice's content is None) or "content" (the content is text).
\* The result is the Plan, or the exception raised and the stage that raised it.
Completed(plan) == [exc |-> "", stage |-> "", msg |-> "", pos |-> -1, plan |-> plan]

Raised(stage, etype, msg, pos) ==
    [exc |-> etype, stage |-> stage, msg |-> msg, pos |-> pos, plan |-> <<>>]

TryBody(outcome) ==
    IF outcome.kind = "raise" THEN Raised("provider", outcome.etype, "", -1)
    ELSE IF outcome.kind = "none" THEN Raised("clean", "TypeError", "", -1)
    ELSE Only({
        IF ~parsed.ok THEN Raised("parse", "JSONDecodeError", parsed.msg, parsed.end)
        ELSE Only({
            IF ~plan_data.ok THEN Raised("validate", plan_data.etype, "", -1)
            ELSE Only({
                IF plan = <<>> THEN Raised("construct", "ValidationError", "", -1)
                ELSE Completed(plan)
                : plan \in {Plan(plan_data.val)} })
            : plan_data \in {validate_json_structure(parsed.val)} })
        : parsed \in {json_loads(clean_json_response(outcome.text))} })

\* the second except clause narrowed to ValueError
HandleNarrow(b) ==
    IF b.exc = "" THEN [plan |-> b.plan, error |-> <<>>, raised |-> "", stage |-> ""]
    ELSE IF IsSubclass(b.exc, "JSONDecodeError")
         THEN [plan |-> <<>>, error |-> <<InvalidJsonMessage(b.msg, b.pos)>>,
               raised |-> "", stage |-> b.stage]
    ELSE IF IsSubclass(b.exc, "ValueError")
         THEN [plan |-> <<>>, error |-> <<format_error_message(b.exc, b.msg, b.pos)>>,
               raised |-> "", stage |-> b.stage]
    ELSE [plan |-> <<>>, error |-> <<>>, raised |-> b.exc, stage |-> b.stage]

\* the except clauses in the other order: except Exception comes first
HandleGenericFirst(b) ==
    IF b.exc = "" THEN [plan |-> b.plan, error |-> <<>>, raised |-> "", stage |-> ""]
    ELSE IF IsSubclass(b.exc, "Exception")
         THEN [plan |-> <<>>, error |-> <<format_error_message(b.exc, b.msg, b.pos)>>,
               raised |-> "", stage |-> b.stage]
    ELSE IF IsSubclass(b.exc, "JSONDecodeError")
         THEN [plan |-> <<>>, error |-> <<InvalidJsonMessage(b.msg, b.pos)>>,
               raised |-> "", stage |-> b.stage]
    ELSE [plan |-> <<>>, error |-> <<>>, raised |-> b.exc, stage |-> b.stage]

\* The except clauses, in order.  A return value is [plan, error, raised, stage]:
\* plan and error are <<>> for None; raised names an exception that leaves
\* generate_plan; stage is where the try block stopped.
Handle(b) ==
    IF b.exc = "" THEN [plan |-> b.plan, error |-> <<>>, raised |-> "", stage |-> ""]
    ELSE IF IsSubclass(b.exc, "JSONDecodeError")
         THEN [plan |-> <<>>, error |-> <<InvalidJsonMessage(b.msg, b.pos)>>,
               raised |-> "", stage |-> b.stage]
    ELSE IF IsSubclass(b.exc, "Exception")
         THEN [plan |-> <<>>, error |-> <<format_error_message(b.exc, b.msg, b.pos)>>,
               raised |-> "", stage |-> b.stage]
    ELSE [plan |-> <<>>, error |-> <<>>, raised |-> b.exc, stage |-> b.stage]

generate_plan(outcome) == Only({Handle(b) : b \in {TryBody(outcome)}})

\* the factory without its check of the key
create_planner_unchecked(key, ctor) ==
    IF ctor # ""
    THEN [planner |-> <<>>, error |-> <<format_error_message(ctor, "", -1)>>]
    ELSE [planner |-> <<[api_key |-> key, model |-> "llama-3.3-70b-versatile"]>>,
          error   |-> <<>>]

\* create_planner(): key is what os.getenv gives ("unset" for None, "empty"
\* for "", "set" otherwise); ctor is "" or the exception Groq(api_key) raises
create_planner(key, ctor) ==
    IF key \in {"unset", "empty"}
    THEN [planner |-> <<>>,
          error   |-> <<[fmt |-> "GROQ_API_KEY not found in environment variables",
                         etype |-> "", msg |-> "", pos |-> -1]>>]
    ELSE IF ctor # ""
    THEN [planner |-> <<>>, error |-> <<format_error_message(ctor, "", -1)>>]
    ELSE [planner |-> <<[api_key |-> key, model |-> "llama-3.3-70b-versatile"]>>,
          error   |-> <<>>]

\* ------------------------------------------------------------------------
\* What the provider may send back
\* ------------------------------------------------------------------------
s_Critical ==
    <<"C","r","i","t","i","c","a","l">>
s_six ==
    <<"s","i","x">>
s_Sorry ==
    <<"S","o","r","r","y",","," ","n","o"," ","p","l","a","n",".">>
s_PlanColon ==
    <<"H","e","r","e"," ","i","s"," ","t","h","e"," ","p","l","a","n",":"," ">>
s_Done ==
    <<" ","H","o","p","e"," ","t","h","i","s"," ","h","e","l","p","s",".">>
s_todo ==
    <<"B","u","i","l","d"," ","a"," ","t","o","d","o"," ","a","p","p">>

Levels == <<s_Low, s_Medium, s_High>>

\* the largest number of risks in a document
MaxRisks == 5

RiskDoc(i, impact, probability) ==
    JObj(<< Item(s_title, JStr(<<"R">> \o NatStr(i))),
            Item(s_description, JStr(<<"D">>)),
            Item(s_impact, JStr(impact)),
            Item(s_probability, JStr(probability)),
            Item(s_mitigation, JStr(<<"M">>)) >>)

\* n well-formed risks, told apart by their titles R1, R2, ...
GoodRisks(n) == [i \in 1..n |-> RiskDoc(i, Levels[(i % 3) + 1], s_High)]

KeysObj(n) == JObj([i \in 1..n |-> Item(<<"k">> \o NatStr(i), JNum(i))])

\* values a document may carry under "risks"
RisksValues ==
    {JList(GoodRisks(n)) : n \in 0..MaxRisks}
    \cup { JList(<<RiskDoc(1, s_Critical, s_Low)>>),
           JList(<<RiskDoc(1, s_Low, s_Low), RiskDoc(2, s_High, <<"?">>)>>),
           JList(<<JNum(7)>>),
           JList(<<JObj(<<Item(s_title, JStr(<<"R","1">>))>>)>>),
           JNull, JNum(7), JStr(<<"a","b">>), JStr(<<"a","b","c">>),
           JStr(<<"a","b","c","d">>), KeysObj(0), KeysObj(3), KeysObj(4) }

TaskDoc ==
    JObj(<< Item(s_name, JStr(<<"T","1">>)), Item(s_description, JStr(<<"d">>)),
            Item(s_estimated_hours, JNum(8)), Item(s_can_parallel, JBool(TRUE)) >>)

MilestoneDoc(tasks) ==
    JObj(<< Item(s_name, JStr(<<"M","1">>)), Item(s_description, JStr(<<"d">>)),
            Item(s_week_number, JNum(2)), Item(s_deliverables, JList(<<JStr(<<"x">>)>>)),
            Item(s_tasks, tasks), Item(s_success_criteria, JList(<<>>)) >>)

Docs ==
    {JObj(<<>>)}
    \cup {JObj(<<Item(s_risks, rv)>>) : rv \in RisksValues}
    \cup {JObj(<< Item(s_project_name, JStr(<<"X">>)), Item(s_total_weeks, tw),
                  Item(s_risks, JList(GoodRisks(3))) >>) : tw \in {JNum(6), JStr(s_six), JNull}}
    \cup {JObj(<< Item(s_milestones, JList(<<MilestoneDoc(ts)>>)),
                  Item(s_risks, JList(GoodRisks(1))) >>) : ts \in {JList(<<TaskDoc>>), JNull}}

Wrappers == {"plain", "fenced", "prose"}

Wrap(w, body) ==
    IF w = "fenced" THEN s_fence_json \o <<"\n">> \o body \o <<"\n">> \o s_fence
    ELSE IF w = "prose" THEN s_PlanColon \o body \o s_Done
    ELSE body

\* texts that are no wrapped document: prose, nothing, a bare scalar, a bare
\* array, a document cut short, two documents
RawTexts ==
    { s_Sorry, <<>>, <<"4","2">>, <<"[","1",",","2","]">>,
      SubSeq(Dumps(JObj(<<Item(s_risks, JList(GoodRisks(1)))>>)), 1, 40),
      <<"{","}"," ","{","}">> }

Texts == {Wrap(w, Dumps(d)) : w \in Wrappers, d \in Docs} \cup RawTexts

Outcomes ==
    {[kind |-> "raise", etype |-> e, text |-> <<>>] : e \in ProviderErrors}
    \cup {[kind |-> "none", etype |-> "", text |-> <<>>]}
    \cup {[kind |-> "content", etype |-> "", text |-> t] : t \in Texts}

\* what the user may type
Briefs == {<<>>, <<" ">>, s_todo}

\* what Groq(api_key=...) may do: return, or raise
CtorOutcomes == {"", "TypeError"}

\* ------------------------------------------------------------------------
\* app.py: one session of the application
\* ------------------------------------------------------------------------
VARIABLES
    env,             \* GROQ_API_KEY in the process environment
    pc,              \* "idle", or "awaiting" the provider inside generate_plan
    brief,           \* project_brief of the current run
    planner,         \* main's planner: <<>> for None
    created,         \* the last create_planner call: <<[ret, ctor]>>
    requests,        \* chat-completion requests issued in the current run
    reply,           \* the provider's outcome in the current run: <<outcome>>
    result,          \* what generate_plan returned in the current run: <<ret>>
    prev,            \* [stage, fmt] of the preceding invocation's error, if any
    plan_generated,  \* st.session_state.plan_generated
    shown,           \* the st.error message of the current run
    data,            \* validate_json_structure's argument as passed: <<data>>
    validated,       \* what validate_json_structure did with it: <<outcome>>
    plan,            \* a Plan object: <<plan>>
    markdown,        \* what plan.to_markdown() returned: <<text>>
    response,        \* clean_json_response's argument: <<text>>
    json_text        \* what clean_json_response returned: <<text>>

vars == <<env, pc, brief, planner, created, requests, reply, result, prev,
          plan_generated, shown, data, validated, plan, markdown,
          response, json_text>>

Init ==
    /\ env \in {"unset", "empty", "set"}
    /\ pc = "idle"
    /\ brief = <<>>
    /\ planner = <<>>
    /\ created = <<>>
    /\ requests = 0
    /\ reply = <<>>
    /\ result = <<>>
    /\ prev = <<>>
    /\ plan_generated = FALSE
    /\ shown = ""
    /\ data = <<>>
    /\ validated = <<>>
    /\ plan = <<>>
    /\ markdown = <<>>
    /\ response = <<>>
    /\ json_text = <<>>

\* the error of an invocation, by the stage that failed and the text around it
Summary(ret) ==
    IF ret.error = <<>> THEN <<>> ELSE <<[stage |-> ret.stage, fmt |-> ret.error[1].fmt]>>

\* main() with the Generate button pressed, up to the provider call inside
\* planner.generate_plan(project_brief)
Main(b, ctor) ==
    /\ pc = "idle"
    /\ brief' = b
    /\ prev' = IF result # <<>> /\ Summary(result[1]) # <<>> THEN Summary(result[1]) ELSE prev
    /\ reply' = <<>>
    /\ result' = <<>>
    /\ UNCHANGED <<env, plan_generated, data, validated, plan, markdown,
                   response, json_text>>
    /\ IF Strip(b) = <<>>
       THEN /\ shown' = "Please enter a project brief or upload a file."
            /\ planner' = <<>>
            /\ requests' = 0
            /\ UNCHANGED <<pc, created>>
       ELSE IF env \in {"unset", "empty"}
       THEN /\ shown' = "Please configure your Groq API key in the .env file."
            /\ planner' = <<>>
            /\ requests' = 0
            /\ UNCHANGED <<pc, created>>
       ELSE LET c == create_planner(env, ctor)
            IN  /\ created' = <<[ret |-> c, ctor |-> ctor]>>
                /\ planner' = c.planner
                /\ IF c.error # <<>>
                   THEN /\ shown' = "Failed to initialize planner"
                        /\ requests' = 0
                        /\ UNCHANGED pc
                   ELSE /\ shown' = ""
                        /\ requests' = 1
                        /\ pc' = "awaiting"

\* a generate_plan that repeats its request once when the provider call raises
RespondRetrying(outcome) ==
    /\ pc = "awaiting"
    /\ UNCHANGED <<env, brief, planner, created, prev, data, validated, plan, markdown,
                   response, json_text>>
    /\ IF outcome.kind = "raise" /\ requests < 2
       THEN /\ requests' = requests + 1
            /\ UNCHANGED <<pc, reply, result, plan_generated, shown>>
       ELSE /\ pc' = "idle"
            /\ reply' = <<outcome>>
            /\ UNCHANGED requests
            /\ LET r == generate_plan(outcome)
               IN  /\ result' = <<r>>
                   /\ IF r.raised # ""
                      THEN shown' = "uncaught" /\ UNCHANGED plan_generated
                      ELSE IF r.error # <<>>
                      THEN shown' = "Failed to generate plan" /\ UNCHANGED plan_generated
                      ELSE shown' = "" /\ plan_generated' = TRUE

\* the provider answers: the rest of generate_plan, then the rest of main()
Respond(outcome) ==
    /\ pc = "awaiting"
    /\ pc' = "idle"
    /\ reply' = <<outcome>>
    /\ LET r == generate_plan(outcome)
       IN  /\ result' = <<r>>
           /\ IF r.raised # ""
              THEN shown' = "uncaught" /\ UNCHANGED plan_generated
              ELSE IF r.error # <<>>
              THEN shown' = "Failed to generate plan" /\ UNCHANGED plan_generated
              ELSE shown' = "" /\ plan_generated' = TRUE
    /\ UNCHANGED <<env, brief, planner, created, requests, prev,
                   data, validated, plan, markdown,
                   response, json_text>>

\* any other caller of the factory
FactoryCall(ctor) ==
    /\ pc = "idle"
    /\ created' = <<[ret |-> create_planner(env, ctor), ctor |-> ctor]>>
    /\ UNCHANGED <<env, pc, brief, planner, requests, reply, result, prev,
                   plan_generated, shown, data, validated, plan, markdown,
                   response, json_text>>

Next ==
    \/ \E b \in Briefs, ctor \in CtorOutcomes : Main(b, ctor)
    \/ \E outcome \in Outcomes : Respond(outcome)
    \/ \E ctor \in CtorOutcomes : FactoryCall(ctor)

Spec == Init /\ [][Next]_vars

\* ------------------------------------------------------------------------
\* validate_json_structure on its own: every document of a bounded set
\* ------------------------------------------------------------------------
\* the fields other than risks a document may carry, with values of any type
FieldChoices ==
    { <<>>,
      <<Item(s_project_name, JStr(<<"X">>))>>,
      <<Item(s_total_weeks, JStr(s_six))>>,
      <<Item(s_milestones, JNull)>>,
      <<Item(s_project_name, JNum(1)), Item(s_total_weeks, JNum(6))>>,
      <<Item(s_monitoring_checkpoints, JList(<<JStr(<<"c">>)>>)),
        Item(s_project_summary, JStr(<<"S">>))>>,
      <<Item(s_parallel_opportunities, JBool(TRUE)), Item(s_milestones, JList(<<>>))>>,
      <<Item(s_project_name, JStr(<<"X">>)), Item(s_project_summary, JStr(<<"S">>)),
        Item(s_total_weeks, JNum(6)), Item(s_milestones, JList(<<>>)),
        Item(s_monitoring_checkpoints, JList(<<>>)),
        Item(s_parallel_opportunities, JList(<<>>))>> }

ValidateInputs ==
    {JObj(f) : f \in FieldChoices}
    \cup {JObj(<<Item(s_risks, rv)>> \o f) : rv \in RisksValues, f \in FieldChoices}
    \cup {JObj(f \o <<Item(s_risks, rv)>>) : rv \in RisksValues, f \in FieldChoices}

AppIdle ==
    /\ env = "set"
    /\ pc = "idle"
    /\ brief = <<>>
    /\ planner = <<>>
    /\ created = <<>>
    /\ requests = 0
    /\ reply = <<>>
    /\ result = <<>>
    /\ prev = <<>>
    /\ plan_generated = FALSE
    /\ shown = ""

InitValidate ==
    /\ AppIdle
    /\ data \in {<<d>> : d \in ValidateInputs}
    /\ validated = <<>>
    /\ plan = <<>>
    /\ markdown = <<>>
    /\ response = <<>>
    /\ json_text = <<>>

\* the call validate_json_structure(data)
Validate ==
    /\ data # <<>>
    /\ validated = <<>>
    /\ validated' = <<validate_json_structure(data[1])>>
    /\ UNCHANGED <<env, pc, brief, planner, created, requests, reply, result, prev,
                   plan_generated, shown, data, plan, markdown, response, json_text>>

NextValidate == Validate

SpecValidate == InitValidate /\ [][NextValidate]_vars

\* ------------------------------------------------------------------------
\* Plan.to_markdown on its own: every Plan of a bounded set
\* ------------------------------------------------------------------------
s_Setup ==
    <<"S","e","t","u","p">>
s_Build ==
    <<"B","u","i","l","d"," ","c","o","r","e">>
s_Notes ==
    <<"N","o","t","e","s">>
s_Scope ==
    <<"#","#","#"," ","S","c","o","p","e">>

\* the largest number of milestones in a Plan
MaxMilestones == 2

MilestonePool ==
    { [ name |-> s_Setup, description |-> <<"d","1">>, week_number |-> 1,
        deliverables |-> <<<<"x">>>>,
        tasks |-> << [ name |-> <<"T","1">>, description |-> <<"t">>, estimated_hours |-> 8,
                       dependencies |-> <<>>, can_parallel |-> FALSE ] >>,
        success_criteria |-> <<<<"o","k">>>> ],
      [ name |-> s_Build, description |-> <<"d","2">>, week_number |-> 12,
        deliverables |-> <<>>,
        tasks |-> << [ name |-> <<"T","2">>, description |-> <<"t">>, estimated_hours |-> 40,
                       dependencies |-> <<<<"T","1">>, <<"T","0">>>>, can_parallel |-> TRUE ] >>,
        success_criteria |-> <<>> ],
      [ name |-> s_Notes, description |-> s_Scope, week_number |-> 3,
        deliverables |-> <<>>, tasks |-> <<>>, success_criteria |-> <<>> ] }

MilestoneLists == UNION {[1..n -> MilestonePool] : n \in 0..MaxMilestones}

Plans ==
    { [ project_name           |-> s_Untitled_Project,
        project_summary        |-> s_No_summary_provided,
        total_weeks            |-> 4,
        milestones             |-> ms,
        risks                  |-> [i \in 1..n |-> Risk(GoodRisks(n)[i])],
        monitoring_checkpoints |-> <<<<"c">>>>,
        parallel_opportunities |-> <<>> ] : ms \in MilestoneLists, n \in 0..MaxRisks }

InitMarkdown ==
    /\ AppIdle
    /\ data = <<>>
    /\ validated = <<>>
    /\ plan \in {<<p>> : p \in Plans}
    /\ markdown = <<>>
    /\ response = <<>>
    /\ json_text = <<>>

\* the call plan.to_markdown()
ToMarkdown ==
    /\ plan # <<>>
    /\ markdown = <<>>
    /\ markdown' = <<to_markdown(plan[1])>>
    /\ UNCHANGED <<env, pc, brief, planner, created, requests, reply, result, prev,
                   plan_generated, shown, data, validated, plan, response, json_text>>

NextMarkdown == ToMarkdown

SpecMarkdown == InitMarkdown /\ [][NextMarkdown]_vars

\* ------------------------------------------------------------------------
\* clean_json_response on its own: every text of a bounded set
\* ------------------------------------------------------------------------

\* the pieces a short text is made of
TokenPool == <<s_fence_json, s_fence, <<" ">>, <<"\n">>, <<"{">>, <<"}">>, <<"a">>>>

\* the largest number of pieces in a text
MaxTokens == 3

TokenTexts ==
    {Cat([i \in 1..Len(f) |-> TokenPool[f[i]]], 1) :
        f \in UNION {[1..n -> 1..Len(TokenPool)] : n \in 0..MaxTokens}}

\* JSON object bodies
Bodies ==
    {Dumps(d) : d \in {JObj(<<>>), JObj(<<Item(s_risks, JList(GoodRisks(1)))>>)}}
    \cup { \* a nested object; the opener's text in a string; a bare fence in a string
            <<"{","\"","a","\"",":"," ","{","\"","b","\"",":"," ","1","}","}">>,
            <<"{","\"","a","\"",":"," ","\"","BT","BT","BT","j","s","o","n"," ","x","\"","}">>,
            <<"{","\"","k","\"",":"," ","\"","BT","BT","BT","\"","}">> }

\* a body between the json fence opener and the closer
FencedTexts ==
    {Wrap("fenced", b) : b \in Bodies} \cup {s_fence_json \o b \o s_fence : b \in Bodies}

InitClean ==
    /\ AppIdle
    /\ data = <<>>
    /\ validated = <<>>
    /\ plan = <<>>
    /\ markdown = <<>>
    /\ response \in {<<t>> : t \in TokenTexts \cup FencedTexts}
    /\ json_text = <<>>

\* the call clean_json_response(response)
Clean ==
    /\ response # <<>>
    /\ json_text = <<>>
    /\ json_text' = <<clean_json_response(response[1])>>
    /\ UNCHANGED <<env, pc, brief, planner, created, requests, reply, result, prev,
                   plan_generated, shown, data, validated, plan, markdown, response>>

SpecClean == InitClean /\ [][Clean]_vars

\* ------------------------------------------------------------------------
\* Properties of generate_plan and create_planner, checked under Spec
\* ------------------------------------------------------------------------
Returned == result # <<>>

PlanReturned == Returned /\ result[1].plan # <<>>

ErrorReturned == Returned /\ result[1].error # <<>>

\* the reply's text after clean_json_response and json.loads
ReplyParsed == json_loads(clean_json_response(reply[1].text))

PlainDoc(risks) == Dumps(JObj(<<Item(s_risks, risks)>>))

\* C1: whatever the provider call does, generate_plan returns a pair without
\* raising, and exactly one of plan and error is not None.
C1_ExactlyOneOfPair ==
    Returned =>
        /\ result[1].raised = ""
        /\ \/ result[1].plan # <<>> /\ result[1].error = <<>>
           \/ result[1].plan = <<>> /\ result[1].error # <<>>

\* an invocation that failed outside the provider call and outside json.loads,
\* after an invocation that failed too
C1_Witness ==
    /\ ErrorReturned
    /\ result[1].plan = <<>>
    /\ result[1].stage = "validate"
    /\ reply[1].kind = "content"
    /\ prev # <<>>

\* C2: every Plan that generate_plan returns has exactly 3 risks.
C2_ThreeRisks == PlanReturned => Len(result[1].plan[1].risks) = 3

\* a Plan returned for a document with more than 3 risks
C2_Witness ==
    /\ PlanReturned
    /\ reply[1].text = PlainDoc(JList(GoodRisks(MaxRisks)))
    /\ result[1].plan[1].risks[3].title = <<"R", "3">>

\* C3: in every Plan that generate_plan returns, each risk's impact and
\* probability is one of Low, Medium, High.
C3_RiskLevels ==
    PlanReturned =>
        \A i \in 1..Len(result[1].plan[1].risks) :
            /\ result[1].plan[1].risks[i].impact \in {s_Low, s_Medium, s_High}
            /\ result[1].plan[1].risks[i].probability \in {s_Low, s_Medium, s_High}

\* C4: when the provider call succeeds and the sanitized text does not parse
\* as JSON, generate_plan returns no Plan and the invalid-JSON error with the
\* parser's message.
C4_InvalidJsonError ==
    (Returned /\ reply[1].kind = "content" /\ ~ReplyParsed.ok) =>
        /\ result[1].plan = <<>>
        /\ result[1].error = <<InvalidJsonMessage(ReplyParsed.msg, ReplyParsed.end)>>

\* prose without braces came back, and the invalid-JSON error was returned
C4_Witness ==
    /\ ErrorReturned
    /\ reply[1].kind = "content"
    /\ reply[1].text = s_Sorry
    /\ result[1].error[1].fmt = "Invalid JSON response from AI: {e}"
    /\ result[1].error[1].msg = "Expecting value"

ClaimedStages == {"provider", "parse", "construct"}

\* C5 as stated: provider failure, parse failure and Plan-construction failure
\* each have an error kind of their own, so two invocations that fail at
\* different stages return errors of different kinds.
C5_KindPerStage ==
    (ErrorReturned /\ prev # <<>>
        /\ prev[1].stage \in ClaimedStages /\ result[1].stage \in ClaimedStages
        /\ prev[1].stage # result[1].stage)
    => prev[1].fmt # result[1].error[1].fmt

\* C5 as amended: a parse failure returns the invalid-JSON error; a provider
\* failure and a Plan-construction failure both return the one generic
\* formatted error, which names the exception's class: a provider error's
\* for the first, ValidationError for the second.
C5_TwoKinds ==
    ErrorReturned =>
        LET e == result[1].error[1]
        IN  /\ result[1].stage = "parse" =>
                e.fmt = "Invalid JSON response from AI: {e}"
            /\ result[1].stage = "provider" =>
                e.fmt = "Error ({error_type}): {str(error)}" /\ e.etype = reply[1].etype
            /\ result[1].stage = "construct" =>
                e.fmt = "Error ({error_type}): {str(error)}" /\ e.etype = "ValidationError"

\* a Plan-construction failure after a provider failure: the same kind of error
C5_Witness ==
    /\ ErrorReturned
    /\ result[1].stage = "construct"
    /\ prev # <<>>
    /\ prev[1].stage = "provider"
    /\ prev[1].fmt = result[1].error[1].fmt

\* C6: an invocation of generate_plan issues exactly one request: while it
\* waits and after it has returned, whatever the outcome, one request was made,
\* and once the provider has answered it has returned.
C6_SingleRequest ==
    /\ pc = "awaiting" => requests = 1 /\ ~Returned
    /\ Returned => requests = 1 /\ pc = "idle"
    /\ (pc = "idle" /\ requests = 1) => Returned

\* the provider call failed, and generate_plan returned after its one request
C6_Witness ==
    /\ ErrorReturned
    /\ reply[1].kind = "raise"
    /\ requests = 1
    /\ pc = "idle"

\* C7: with the key unset create_planner returns (None, the configuration
\* error); with the key set and the client built it returns (planner, None);
\* and main never reaches generate_plan without a planner.
C7_Factory ==
    /\ created # <<>> =>
        /\ env \in {"unset", "empty"} =>
              /\ created[1].ret.planner = <<>>
              /\ created[1].ret.error # <<>>
              /\ created[1].ret.error[1].fmt = "GROQ_API_KEY not found in environment variables"
        /\ (env = "set" /\ created[1].ctor = "") =>
              /\ created[1].ret.planner # <<>>
              /\ created[1].ret.error = <<>>
    /\ (pc = "awaiting" \/ Returned) => planner # <<>>
    /\ (pc = "awaiting") => created # <<>> /\ created[1].ret.planner = planner

\* the key is unset, create_planner was called, and main stopped before
\* generate_plan
C7_Witness ==
    /\ env = "unset"
    /\ created # <<>>
    /\ created[1].ret.planner = <<>>
    /\ brief = s_todo
    /\ requests = 0
    /\ ~Returned

\* ------------------------------------------------------------------------
\* Properties of Plan.to_markdown, checked under SpecMarkdown
\* ------------------------------------------------------------------------
\* where the lines of md begin
LineStarts(md) == {1} \cup {j + 1 : j \in {k \in 1..(Len(md) - 1) : md[k] = "\n"}}

\* where its H3 headings begin: the lines that open with three hashes and a space
H3Starts(md) == {b \in LineStarts(md) : StartsWithAt(md, md_h3, b - 1)}

\* the line that begins at b, with its line break
LineAt(md, b) ==
    SubSeq(md, b, CHOOSE e \in b..Len(md) :
                      /\ md[e] = "\n" \/ e = Len(md)
                      /\ \A k \in b..(e - 1) : md[k] # "\n")

\* the members of a set of numbers in increasing order
RECURSIVE Ascending(_)
Ascending(S) ==
    IF S = {} THEN <<>>
    ELSE LET least == CHOOSE x \in S : \A y \in S : x <= y
         IN  <<least>> \o Ascending(S \ {least})

\* the H3 headings of md, in order
H3Headings(md) ==
    LET at == Ascending(H3Starts(md)) IN [i \in 1..Len(at) |-> LineAt(md, at[i])]

HasChar(s, c) == \E i \in 1..Len(s) : s[i] = c

Plain(s) == ~HasChar(s, "#") /\ ~HasChar(s, "\n")

\* no text of the Plan holds a hash or a line break
PlainPlan(p) ==
    /\ Plain(p.project_name) /\ Plain(p.project_summary)
    /\ \A i \in 1..Len(p.monitoring_checkpoints) : Plain(p.monitoring_checkpoints[i])
    /\ \A i \in 1..Len(p.parallel_opportunities) : Plain(p.parallel_opportunities[i])
    /\ \A i \in 1..Len(p.risks) :
          /\ Plain(p.risks[i].title) /\ Plain(p.risks[i].description)
          /\ Plain(p.risks[i].impact) /\ Plain(p.risks[i].probability)
          /\ Plain(p.risks[i].mitigation)
    /\ \A i \in 1..Len(p.milestones) :
          LET m == p.milestones[i]
          IN  /\ Plain(m.name) /\ Plain(m.description)
              /\ \A j \in 1..Len(m.deliverables) : Plain(m.deliverables[j])
              /\ \A j \in 1..Len(m.success_criteria) : Plain(m.success_criteria[j])
              /\ \A j \in 1..Len(m.tasks) :
                    /\ Plain(m.tasks[j].name) /\ Plain(m.tasks[j].description)
                    /\ \A k \in 1..Len(m.tasks[j].dependencies) :
                          Plain(m.tasks[j].dependencies[k])

\* C8 as stated: the output has as many H3 headings as the Plan has
\* milestones, and the i-th H3 heading is the i-th milestone's.
C8_H3PerMilestone ==
    markdown # <<>> =>
        LET h == H3Headings(markdown[1])
        IN  /\ Len(h) = Len(plan[1].milestones)
            /\ \A i \in 1..Len(h) :
                  h[i] = md_h3 \o plan[1].milestones[i].name \o md_week_open
                           \o IntStr(plan[1].milestones[i].week_number) \o md_week_close

\* C8 as amended: for a Plan whose texts hold no hash and no line break, the
\* H3 headings are one per milestone, in order, with name and week number, and
\* after them one per risk, in order, with the risk's number and title.
C8_H3MilestonesThenRisks ==
    (markdown # <<>> /\ PlainPlan(plan[1])) =>
        LET h == H3Headings(markdown[1])
            nm == Len(plan[1].milestones)
            nr == Len(plan[1].risks)
        IN  /\ Len(h) = nm + nr
            /\ \A i \in 1..nm :
                  h[i] = md_h3 \o plan[1].milestones[i].name \o md_week_open
                           \o IntStr(plan[1].milestones[i].week_number) \o md_week_close
            /\ \A j \in 1..nr :
                  h[nm + j] = md_h3 \o NatStr(j) \o md_dot \o plan[1].risks[j].title \o NL

\* a Plan with two different milestones and three risks was rendered
C8_Witness ==
    /\ markdown # <<>>
    /\ PlainPlan(plan[1])
    /\ Len(plan[1].milestones) = 2
    /\ plan[1].milestones[1].name = s_Build
    /\ plan[1].milestones[2].name = s_Setup
    /\ Len(plan[1].risks) = 3

\* ------------------------------------------------------------------------
\* Properties of validate_json_structure, checked under SpecValidate
\* ------------------------------------------------------------------------
Default(key) == Get(required_fields, key)

FieldNames == {required_fields[i].k : i \in 1..Len(required_fields)}

\* C9: on every string-keyed map, whatever the type of its values,
\* validate_json_structure returns without raising a map with all seven
\* fields, a missing field holding its default and a present field other
\* than risks unchanged.
C9_Total ==
    validated # <<>> =>
        /\ validated[1].ok
        /\ validated[1].val.t = "obj"
        /\ \A key \in FieldNames :
              /\ HasKey(validated[1].val.o, key)
              /\ ~HasKey(data[1].o, key) /\ key # s_risks =>
                    Get(validated[1].val.o, key) = Default(key)
              /\ HasKey(data[1].o, key) /\ key # s_risks =>
                    Get(validated[1].val.o, key) = Get(data[1].o, key)

RisksIn == Get(data[1].o, s_risks).l

RisksOut == Get(validated[1].val.o, s_risks)

\* C10: on a risks list of length n the output's risks are a list of exactly
\* 3: the first 3 entries for n >= 3; for n < 3 the n entries followed by
\* placeholders titled Generic Risk of Medium impact and probability.
C10_ThreeRisks ==
    (validated # <<>> /\ HasKey(data[1].o, s_risks) /\ Get(data[1].o, s_risks).t = "list") =>
        /\ validated[1].ok
        /\ RisksOut.t = "list"
        /\ Len(RisksOut.l) = 3
        /\ \A i \in 1..3 :
              IF i <= Len(RisksIn) THEN RisksOut.l[i] = RisksIn[i]
              ELSE /\ RisksOut.l[i].t = "obj"
                   /\ Get(RisksOut.l[i].o, s_title) = JStr(s_Generic_Risk)
                   /\ Get(RisksOut.l[i].o, s_impact) = JStr(s_Medium)
                   /\ Get(RisksOut.l[i].o, s_probability) = JStr(s_Medium)

\* a list of one risk was padded, its entry first
C10_Witness ==
    /\ validated # <<>>
    /\ HasKey(data[1].o, s_risks)
    /\ Get(data[1].o, s_risks) = JList(GoodRisks(1))
    /\ validated[1].ok
    /\ RisksOut.l[1] = GoodRisks(1)[1]
    /\ Get(RisksOut.l[3].o, s_title) = JStr(s_Generic_Risk)

\* ------------------------------------------------------------------------
\* Properties of clean_json_response, checked under SpecClean
\* ------------------------------------------------------------------------
\* no opening brace with a closing brace after it
NoBracePair(s) == ~\E i \in 1..Len(s) : \E j \in (i + 1)..Len(s) : s[i] = "{" /\ s[j] = "}"

\* s from its first to its last character that is not whitespace
Trimmed(s) ==
    LET inked == {i \in 1..Len(s) : s[i] \notin {" ", "\t", "\n", "\r", "\f"}}
    IN  IF inked = {} THEN <<>>
        ELSE SubSeq(s, CHOOSE a \in inked : \A b \in inked : a <= b,
                       CHOOSE a \in inked : \A b \in inked : a >= b)

HasFence(s) == \E i \in 0..Len(s) : StartsWithAt(s, s_fence, i)

\* C11 as stated: on a text with no brace pair clean_json_response returns
\* the whitespace-trimmed input, nothing else removed or changed.
C11_TrimmedOriginal ==
    (json_text # <<>> /\ NoBracePair(response[1])) => json_text[1] = Trimmed(response[1])

\* C11 as amended: on a text with no brace pair clean_json_response returns
\* the whitespace-trimmed rest of the input after every json fence opener with
\* the whitespace behind it, and then a closing fence at the end of the text,
\* have been removed; it is the trimmed input itself when the input holds
\* no fence.
C11_TrimmedAfterFences ==
    (json_text # <<>> /\ NoBracePair(response[1])) =>
        /\ json_text[1] = Trimmed(SubTrailingFence(SubJsonFence(response[1], 0, <<>>)))
        /\ ~HasFence(response[1]) => json_text[1] = Trimmed(response[1])

\* a text with no brace pair and a fence was cleaned to something other than
\* its trimmed self
C11_Witness ==
    /\ json_text # <<>>
    /\ NoBracePair(response[1])
    /\ HasFence(response[1])
    /\ response[1] = s_fence_json \o <<"\n">> \o <<"a">>
    /\ json_text[1] = <<"a">>

\* C12: on a json fence opener, a JSON object body and a closing fence,
\* clean_json_response returns the body, no character of it deleted or
\* altered.
C12_FencedBodyUnchanged ==
    json_text # <<>> =>
        \A b \in Bodies :
            response[1] \in {Wrap("fenced", b), s_fence_json \o b \o s_fence} =>
                json_text[1] = b

====
